---- MODULE Spec2Model ----
(***************************************************************************)
(* Website provisioning workflow of the Prime Webs server: the Express     *)
(* route handlers (routes), the DatabaseStorage calls they await and the   *)
(* FileManager calls on the local directory tree; and the script template *)
(* handlers (upload, delete, catalog view) on the scripts directory and    *)
(* their table.                                                            *)
(*                                                                         *)
(* A request is a process.  Node runs one handler continuation at a time,  *)
(* so a handler is atomic between two awaits; every awaited database or    *)
(* filesystem call is one step that takes effect at one instant, and       *)
(* steps of requests in flight interleave freely.                          *)
(*                                                                         *)
(* Strings that are validated character by character (name, subdomain)    *)
(* are sequences of character codes; a key that is absent from a JSON      *)
(* body is absent from the DOMAIN of the record that models the body.      *)
(***************************************************************************)
EXTENDS Integers, Sequences, FiniteSets, TLC

VARIABLES websites, websiteLogs, scriptTemplates, fs, scriptsDir, req, response,
          started, faults, nextId

vars == <<websites, websiteLogs, scriptTemplates, fs, scriptsDir, req, response,
          started, faults, nextId>>

(* ------------------------------ bounds -------------------------------- *)
\* requests started in one behaviour
MaxOps == 3
\* filesystem calls that fail in one behaviour
MaxFaults == 1
\* longest subdomain string enumerated by SpecValidate
MaxLen == 2

\* the requests that can be in flight at the same time
Requests == {1, 2}
Users == {"u1", "u2"}

(* ------------------------------ strings ------------------------------- *)
Null == "<null>"

SubA == <<97>>
SubB == <<98>>
SubUpper == <<65>>
NameSite == <<83>>
NameNew == <<78>>
Empty == << >>
\* "my-site-1" and "My Site!"
SubMySite1 == <<109, 121, 45, 115, 105, 116, 101, 45, 49>>
SubMySiteBang == <<77, 121, 32, 83, 105, 116, 101, 33>>

(* ------------------------------ archives ------------------------------ *)
\* the archives lying in the scripts directory, and a name that is not there
ScriptA == "a.zip"
ScriptB == "b.zip"
ScriptBad == "bad.zip"
ScriptMissing == "none.zip"

\* the scripts directory maps a file name to the bytes of the file; the bytes
\* of an archive that lies there at start-up go by its file name
ShippedScripts == [n \in {ScriptA, ScriptB, ScriptBad} |-> n]

\* the buffers clients upload, and a path that holds no file
BufferX == "x.bytes"
BufferY == "y.bytes"
NoFile == "<no file>"

\* the bytes under a file name of the scripts directory
Content(fileName) ==
  IF fileName \in DOMAIN scriptsDir THEN scriptsDir[fileName] ELSE NoFile

\* the entries unzip writes for the bytes of an archive; corrupt bytes have none
ArchiveFiles(s) ==
  CASE s = ScriptA -> {"index.html", "a.css"}
    [] s = ScriptB -> {"index.html", "b.js"}
    [] OTHER -> {}

\* unzip exits non-zero on corrupt bytes
ArchiveOk(s) == s \in {ScriptA, ScriptB}

(* ------------------------------ storage ------------------------------- *)
getUserWebsites(userId) == {w \in websites : w.userId = userId}

getWebsite(id) == {w \in websites : w.id = id}

getWebsiteBySubdomain(subdomain) == {w \in websites : w.subdomain = subdomain}

\* the subdomain column without its unique constraint
SubdomainUniqueMut(row) == TRUE

\* the unique constraint on websites.subdomain
SubdomainUnique(row) == \A w \in websites : w.subdomain # row.subdomain

\* the columns a website row carries, with the column defaults; the id is
\* gen_random_uuid(), never handed out twice: nextId counts the ids handed out
\* (description, isActive and the timestamps take no part in the workflow)
insertWebsiteRow(id, data) ==
  [id |-> id,
   userId |-> data.userId,
   name |-> data.name,
   subdomain |-> data.subdomain,
   currentScript |-> IF "currentScript" \in DOMAIN data THEN data.currentScript ELSE Null]

\* UPDATE websites SET updates WHERE id = id
updateWebsiteRows(id, updates) ==
  {IF w.id = id
     THEN [f \in DOMAIN w |-> IF f \in DOMAIN updates THEN updates[f] ELSE w[f]]
     ELSE w : w \in websites}

\* DELETE FROM websites WHERE id = id, cascading to website_logs
deleteWebsiteRows(id) == {w \in websites : w.id # id}

\* the foreign key without ON DELETE CASCADE
cascadeLogsMut(id) == websiteLogs

cascadeLogs(id) == SelectSeq(websiteLogs, LAMBDA l : l.websiteId # id)

\* the foreign key website_logs.website_id -> websites.id
LogForeignKey(id) == \E w \in websites : w.id = id

\* SELECT ... ORDER BY created_at DESC: newest first
RECURSIVE Reverse(_)
Reverse(s) == IF s = << >> THEN << >> ELSE Append(Reverse(Tail(s)), Head(s))

\* the select without its ORDER BY: insertion order, oldest first
getWebsiteLogsMut(id) == SelectSeq(websiteLogs, LAMBDA l : l.websiteId = id)

getWebsiteLogs(id) == Reverse(SelectSeq(websiteLogs, LAMBDA l : l.websiteId = id))

(* ----------------------------- validation ----------------------------- *)
\* the character class of a case-insensitive pattern
ClassMut(c) == (c >= 97 /\ c <= 122) \/ (c >= 48 /\ c <= 57) \/ c = 45 \/ (c >= 65 /\ c <= 90)

\* the character class [a-z0-9-]
Class(c) == (c >= 97 /\ c <= 122) \/ (c >= 48 /\ c <= 57) \/ c = 45

\* /^[a-z0-9-]+$/ : one or more characters of the class, and nothing else
RECURSIVE AllInClass(_)
AllInClass(s) == IF s = << >> THEN TRUE ELSE Class(Head(s)) /\ AllInClass(Tail(s))

RegexSubdomain(s) == Len(s) >= 1 /\ AllInClass(s)

\* createWebsiteSchema.parse({...req.body, userId}): the paths of the issues
createWebsiteSchemaIssues(body) ==
  (IF "name" \in DOMAIN body /\ Len(body.name) >= 1 THEN {} ELSE {"name"})
  \cup
  (IF "subdomain" \in DOMAIN body /\ Len(body.subdomain) >= 1 /\ RegexSubdomain(body.subdomain)
     THEN {} ELSE {"subdomain"})

\* the parsed object: the keys of insertWebsiteSchema, userId from the session
InsertKeys == {"userId", "name", "subdomain", "currentScript"}

\* the spread the other way round, {userId, ...req.body}: a userId of the body
\* wins over the session's
validatedDataMut(body, userId) ==
  [k \in (DOMAIN body \cap InsertKeys) \cup {"userId"} |->
     IF k \in DOMAIN body THEN body[k] ELSE userId]

validatedData(body, userId) ==
  [k \in (DOMAIN body \cap InsertKeys) \cup {"userId"} |->
     IF k = "userId" THEN userId ELSE body[k]]

(* ------------------------------ requests ------------------------------ *)
IdleReq == [pc |-> "idle"]

\* what a handler holds before it has read a row
NoWebsite == [id |-> 0]

\* a free slot takes the next request; slots are interchangeable, so the lowest
\* free one takes it
Idle(r) ==
  /\ req[r].pc = "idle"
  /\ \A q \in Requests : q < r => req[q].pc # "idle"
  /\ started < MaxOps

NoResponse == [status |-> 0, message |-> "", req |-> IdleReq]

\* a step that answers nothing: response holds the answer of the last step only
Silent == response' = NoResponse

\* res.status(status).json({message}) and the end of the request
Respond(r, status, message, final) ==
  /\ response' = [status |-> status, message |-> message, req |-> final]
  /\ req' = [req EXCEPT ![r] = IdleReq]

MsgQuota == "You can only create one website. Please delete your existing website first."
MsgValidation == "Validation error"
MsgTaken == "Subdomain already taken"
MsgCreateFailed == "Failed to create website"
MsgCreated == "website"

Did(r, effect) == [req[r] EXCEPT !.effects = Append(@, effect)]

\* a request that arrives when no other is in flight follows the answer that is
\* still in response
Sequential == \A q \in Requests : req[q].pc = "idle"

\* the subdomain of the website whose deletion by userId was answered 200 just
\* before this request arrived
JustDeleted(userId) ==
  IF /\ Sequential
     /\ response.status = 200
     /\ response.req.kind = "delete"
     /\ response.req.user = userId
    THEN {response.req.website.subdomain}
    ELSE {}

\* a change-script of the same website to the same script was answered 200 just
\* before this request arrived
JustApplied(userId, id, scriptName) ==
  /\ Sequential
  /\ response.status = 200
  /\ response.req.kind = "apply"
  /\ response.req.user = userId
  /\ response.req.id = id
  /\ response.req.scriptName = scriptName

(* -------------------------- POST /api/websites ------------------------ *)
\* the schema parse placed before the quota check
CreateQuotaMut(r, userId, body) ==
  /\ Idle(r)
  /\ started' = started + 1
  /\ LET this == [kind |-> "create", pc |-> "subdomain", user |-> userId, body |-> body,
                  data |-> validatedData(body, userId), issues |-> {},
                  website |-> NoWebsite, prior |-> JustDeleted(userId),
                  cause |-> "", effects |-> << >>]
     IN IF createWebsiteSchemaIssues(body) # {}
          THEN Respond(r, 400, MsgValidation,
                       [this EXCEPT !.cause = "zod", !.issues = createWebsiteSchemaIssues(body)])
          ELSE IF getUserWebsites(userId) # {}
            THEN Respond(r, 400, MsgQuota, [this EXCEPT !.cause = "quota"])
            ELSE /\ req' = [req EXCEPT ![r] = this]
                 /\ Silent
  /\ UNCHANGED <<websites, websiteLogs, fs, scriptsDir, scriptTemplates, faults, nextId>>

\* getUserWebsites, the quota check and the schema parse
CreateQuota(r, userId, body) ==
  /\ Idle(r)
  /\ started' = started + 1
  /\ LET this == [kind |-> "create", pc |-> "subdomain", user |-> userId, body |-> body,
                  data |-> validatedData(body, userId), issues |-> {},
                  website |-> NoWebsite, prior |-> JustDeleted(userId),
                  cause |-> "", effects |-> << >>]
     IN IF getUserWebsites(userId) # {}
          THEN Respond(r, 400, MsgQuota, [this EXCEPT !.cause = "quota"])
          ELSE IF createWebsiteSchemaIssues(body) # {}
            THEN Respond(r, 400, MsgValidation,
                         [this EXCEPT !.cause = "zod", !.issues = createWebsiteSchemaIssues(body)])
            ELSE /\ req' = [req EXCEPT ![r] = this]
                 /\ Silent
  /\ UNCHANGED <<websites, websiteLogs, fs, scriptsDir, scriptTemplates, faults, nextId>>

\* getWebsiteBySubdomain and the taken check
CreateSubdomain(r) ==
  /\ req[r].pc = "subdomain" /\ req[r].kind = "create"
  /\ IF getWebsiteBySubdomain(req[r].data.subdomain) # {}
       THEN Respond(r, 400, MsgTaken, [req[r] EXCEPT !.cause = "taken"])
       ELSE /\ req' = [req EXCEPT ![r].pc = "mkdir"]
            /\ Silent
  /\ UNCHANGED <<websites, websiteLogs, fs, scriptsDir, scriptTemplates, started, faults, nextId>>

\* fileManager.createUserWebsiteDir: mkdir -p of the website directory
getUserWebsiteDir(userId, subdomain) == <<userId, subdomain>>

\* a mkdir that leaves an empty directory whatever was there
mkdirRecursiveMut(dir) == (dir :> {}) @@ fs

mkdirRecursive(dir) == IF dir \in DOMAIN fs THEN fs ELSE (dir :> {}) @@ fs

\* fs.mkdir without {recursive}: a directory that is there already rejects
CreateMkdirMut(r) ==
  /\ req[r].pc = "mkdir" /\ req[r].kind = "create"
  /\ IF getUserWebsiteDir(req[r].user, req[r].data.subdomain) \in DOMAIN fs
       THEN /\ Respond(r, 500, MsgCreateFailed, [req[r] EXCEPT !.cause = "eexist"])
            /\ UNCHANGED fs
       ELSE /\ fs' = mkdirRecursive(getUserWebsiteDir(req[r].user, req[r].data.subdomain))
            /\ req' = [req EXCEPT ![r] = [Did(r, "mkdir") EXCEPT !.pc = "insert"]]
            /\ Silent
  /\ UNCHANGED <<websites, websiteLogs, scriptsDir, scriptTemplates, started, faults, nextId>>

CreateMkdir(r) ==
  /\ req[r].pc = "mkdir" /\ req[r].kind = "create"
  /\ fs' = mkdirRecursive(getUserWebsiteDir(req[r].user, req[r].data.subdomain))
  /\ req' = [req EXCEPT ![r] = [Did(r, "mkdir") EXCEPT !.pc = "insert"]]
  /\ Silent
  /\ UNCHANGED <<websites, websiteLogs, scriptsDir, scriptTemplates, started, faults, nextId>>

\* mkdir rejects and the error is logged and dropped, as the cleanup paths do
CreateMkdirFailsMut(r) ==
  /\ req[r].pc = "mkdir" /\ req[r].kind = "create"
  /\ faults < MaxFaults
  /\ faults' = faults + 1
  /\ req' = [req EXCEPT ![r].pc = "insert"]
  /\ Silent
  /\ UNCHANGED <<websites, websiteLogs, fs, scriptsDir, scriptTemplates, started, nextId>>

\* mkdir rejects: the handler's catch answers 500
CreateMkdirFails(r) ==
  /\ req[r].pc = "mkdir" /\ req[r].kind = "create"
  /\ faults < MaxFaults
  /\ faults' = faults + 1
  /\ Respond(r, 500, MsgCreateFailed, [req[r] EXCEPT !.cause = "mkdir"])
  /\ UNCHANGED <<websites, websiteLogs, fs, scriptsDir, scriptTemplates, started, nextId>>

\* storage.createWebsite: the insert, refused by the unique constraint
CreateInsert(r) ==
  /\ req[r].pc = "insert" /\ req[r].kind = "create"
  /\ LET row == insertWebsiteRow(nextId, req[r].data)
     IN IF SubdomainUnique(row)
          THEN /\ websites' = websites \cup {row}
               /\ nextId' = nextId + 1
               /\ req' = [req EXCEPT ![r] = [Did(r, "insert") EXCEPT !.pc = "log", !.website = row]]
               /\ Silent
          ELSE /\ Respond(r, 500, MsgCreateFailed, [req[r] EXCEPT !.cause = "unique"])
               /\ UNCHANGED <<websites, nextId>>
  /\ UNCHANGED <<websiteLogs, fs, scriptsDir, scriptTemplates, started, faults>>

\* storage.createWebsiteLog of the creation, and the 201 answer
CreateLog(r) ==
  /\ req[r].pc = "log" /\ req[r].kind = "create"
  /\ IF LogForeignKey(req[r].website.id)
       THEN /\ websiteLogs' = Append(websiteLogs,
                 [websiteId |-> req[r].website.id, action |-> "created",
                  details |-> [name |-> req[r].website.name,
                               subdomain |-> req[r].website.subdomain]])
            /\ Respond(r, 201, MsgCreated, Did(r, "log"))
       ELSE /\ Respond(r, 500, MsgCreateFailed, [req[r] EXCEPT !.cause = "fk"])
            /\ UNCHANGED websiteLogs
  /\ UNCHANGED <<websites, fs, scriptsDir, scriptTemplates, started, faults, nextId>>

(* ------------------------ PATCH /api/websites/:id --------------------- *)
MsgNotFound == "Website not found"
MsgDenied == "Access denied"
MsgUpdated == "updatedWebsite"
MsgUpdateFailed == "Failed to update website"

\* updateData = req.body, with nothing deleted from it
StripMut(body) == body

\* delete updateData.userId; delete updateData.subdomain
Strip(body) == [k \in DOMAIN body \ {"userId", "subdomain"} |-> body[k]]

\* getWebsite, the existence and ownership checks, the stripping of the body
PatchGet(r, userId, id, body) ==
  /\ Idle(r)
  /\ started' = started + 1
  /\ LET this == [kind |-> "patch", pc |-> "update", user |-> userId, id |-> id,
                  body |-> body, data |-> Strip(body),
                  website |-> NoWebsite, cause |-> "", effects |-> << >>]
     IN IF getWebsite(id) = {}
          THEN Respond(r, 404, MsgNotFound, [this EXCEPT !.cause = "missing"])
          ELSE LET website == CHOOSE w \in getWebsite(id) : TRUE
               IN IF website.userId # userId
                    THEN Respond(r, 403, MsgDenied,
                                 [this EXCEPT !.cause = "owner", !.website = website])
                    ELSE /\ req' = [req EXCEPT ![r] = [this EXCEPT !.website = website]]
                         /\ Silent
  /\ UNCHANGED <<websites, websiteLogs, fs, scriptsDir, scriptTemplates, faults, nextId>>

\* storage.updateWebsite(req.params.id, updateData)
PatchUpdate(r) ==
  /\ req[r].pc = "update" /\ req[r].kind = "patch"
  /\ websites' = updateWebsiteRows(req[r].id, req[r].data)
  /\ req' = [req EXCEPT ![r] = [Did(r, "update") EXCEPT !.pc = "log"]]
  /\ Silent
  /\ UNCHANGED <<websiteLogs, fs, scriptsDir, scriptTemplates, started, faults, nextId>>

\* storage.createWebsiteLog of the update, and the answer
PatchLog(r) ==
  /\ req[r].pc = "log" /\ req[r].kind = "patch"
  /\ IF LogForeignKey(req[r].website.id)
       THEN /\ websiteLogs' = Append(websiteLogs,
                 [websiteId |-> req[r].website.id, action |-> "updated",
                  details |-> req[r].data])
            /\ Respond(r, 200, MsgUpdated, Did(r, "log"))
       ELSE /\ Respond(r, 500, MsgUpdateFailed, [req[r] EXCEPT !.cause = "fk"])
            /\ UNCHANGED websiteLogs
  /\ UNCHANGED <<websites, fs, scriptsDir, scriptTemplates, started, faults, nextId>>

(* ----------------------- DELETE /api/websites/:id --------------------- *)
MsgDeleted == "Website deleted successfully"

\* getWebsite and the existence check, without the ownership check
DeleteGetMut(r, userId, id) ==
  /\ Idle(r)
  /\ started' = started + 1
  /\ LET this == [kind |-> "delete", pc |-> "rmdir", user |-> userId, id |-> id,
                  website |-> NoWebsite,
                  cause |-> "", effects |-> << >>]
     IN IF getWebsite(id) = {}
          THEN Respond(r, 404, MsgNotFound, [this EXCEPT !.cause = "missing"])
          ELSE LET website == CHOOSE w \in getWebsite(id) : TRUE
               IN /\ req' = [req EXCEPT ![r] = [this EXCEPT !.website = website]]
                  /\ Silent
  /\ UNCHANGED <<websites, websiteLogs, fs, scriptsDir, scriptTemplates, faults, nextId>>

\* getWebsite, the existence and ownership checks
DeleteGet(r, userId, id) ==
  /\ Idle(r)
  /\ started' = started + 1
  /\ LET this == [kind |-> "delete", pc |-> "rmdir", user |-> userId, id |-> id,
                  website |-> NoWebsite,
                  cause |-> "", effects |-> << >>]
     IN IF getWebsite(id) = {}
          THEN Respond(r, 404, MsgNotFound, [this EXCEPT !.cause = "missing"])
          ELSE LET website == CHOOSE w \in getWebsite(id) : TRUE
               IN IF website.userId # userId
                    THEN Respond(r, 403, MsgDenied,
                                 [this EXCEPT !.cause = "owner", !.website = website])
                    ELSE /\ req' = [req EXCEPT ![r] = [this EXCEPT !.website = website]]
                         /\ Silent
  /\ UNCHANGED <<websites, websiteLogs, fs, scriptsDir, scriptTemplates, faults, nextId>>

\* fs.rm(dir, {recursive, force}): the directory and all beneath it
rmRecursive(dir) == [d \in DOMAIN fs \ {dir} |-> fs[d]]

\* fileManager.deleteWebsiteDir
DeleteRmdir(r) ==
  /\ req[r].pc = "rmdir" /\ req[r].kind = "delete"
  /\ fs' = rmRecursive(getUserWebsiteDir(req[r].user, req[r].website.subdomain))
  /\ req' = [req EXCEPT ![r] = [Did(r, "rmdir") EXCEPT !.pc = "delete"]]
  /\ Silent
  /\ UNCHANGED <<websites, websiteLogs, scriptsDir, scriptTemplates, started, faults, nextId>>

\* fs.rm rejects: deleteWebsiteDir logs the error and returns
DeleteRmdirFails(r) ==
  /\ req[r].pc = "rmdir" /\ req[r].kind = "delete"
  /\ faults < MaxFaults
  /\ faults' = faults + 1
  /\ req' = [req EXCEPT ![r].pc = "delete"]
  /\ Silent
  /\ UNCHANGED <<websites, websiteLogs, fs, scriptsDir, scriptTemplates, started, nextId>>

\* storage.deleteWebsite and the answer
DeleteRow(r) ==
  /\ req[r].pc = "delete" /\ req[r].kind = "delete"
  /\ websites' = deleteWebsiteRows(req[r].id)
  /\ websiteLogs' = cascadeLogs(req[r].id)
  /\ Respond(r, 200, MsgDeleted, Did(r, "delete"))
  /\ UNCHANGED <<fs, scriptsDir, scriptTemplates, started, faults, nextId>>

(* ------------------ POST /api/websites/:id/change-script -------------- *)
MsgScriptRequired == "Script name is required"
MsgScriptNotFound == "Script not found"
MsgScriptChanged == "Script changed successfully"
MsgScriptFailed == "Failed to change script"

\* the handler with getWebsite and the existence check ahead of the scriptName
\* check
ApplyGetMut(r, userId, id, scriptName) ==
  /\ Idle(r)
  /\ started' = started + 1
  /\ LET this == [kind |-> "apply", pc |-> "exists", user |-> userId, id |-> id,
                  scriptName |-> scriptName,
                  website |-> NoWebsite, listed |-> {}, items |-> {},
                  prior |-> JustApplied(userId, id, scriptName),
                  cause |-> "", effects |-> << >>]
     IN IF getWebsite(id) = {}
          THEN Respond(r, 404, MsgNotFound, [this EXCEPT !.cause = "missing"])
          ELSE IF scriptName = ""
            THEN Respond(r, 400, MsgScriptRequired, [this EXCEPT !.cause = "scriptName"])
            ELSE LET website == CHOOSE w \in getWebsite(id) : TRUE
                 IN IF website.userId # userId
                      THEN Respond(r, 403, MsgDenied,
                                   [this EXCEPT !.cause = "owner", !.website = website])
                      ELSE /\ req' = [req EXCEPT ![r] = [this EXCEPT !.website = website]]
                           /\ Silent
  /\ UNCHANGED <<websites, websiteLogs, fs, scriptsDir, scriptTemplates, faults, nextId>>

\* the scriptName check, getWebsite, the existence and ownership checks
ApplyGet(r, userId, id, scriptName) ==
  /\ Idle(r)
  /\ started' = started + 1
  /\ LET this == [kind |-> "apply", pc |-> "exists", user |-> userId, id |-> id,
                  scriptName |-> scriptName,
                  website |-> NoWebsite, listed |-> {}, items |-> {},
                  prior |-> JustApplied(userId, id, scriptName),
                  cause |-> "", effects |-> << >>]
     IN IF scriptName = ""
          THEN Respond(r, 400, MsgScriptRequired, [this EXCEPT !.cause = "scriptName"])
          ELSE IF getWebsite(id) = {}
            THEN Respond(r, 404, MsgNotFound, [this EXCEPT !.cause = "missing"])
            ELSE LET website == CHOOSE w \in getWebsite(id) : TRUE
                 IN IF website.userId # userId
                      THEN Respond(r, 403, MsgDenied,
                                   [this EXCEPT !.cause = "owner", !.website = website])
                      ELSE /\ req' = [req EXCEPT ![r] = [this EXCEPT !.website = website]]
                           /\ Silent
  /\ UNCHANGED <<websites, websiteLogs, fs, scriptsDir, scriptTemplates, faults, nextId>>

\* fs.access of the scripts directory instead of the archive in it
scriptExistsMut(scriptName) == TRUE

\* fileManager.scriptExists: fs.access of the archive in the scripts directory
scriptExists(scriptName) == scriptName \in DOMAIN scriptsDir

ApplyExists(r) ==
  /\ req[r].pc = "exists" /\ req[r].kind = "apply"
  /\ IF ~scriptExists(req[r].scriptName)
       THEN Respond(r, 404, MsgScriptNotFound, [req[r] EXCEPT !.cause = "script"])
       ELSE /\ req' = [req EXCEPT ![r].pc = "mkdir"]
            /\ Silent
  /\ UNCHANGED <<websites, websiteLogs, fs, scriptsDir, scriptTemplates, started, faults, nextId>>

WebsiteDirOf(r) == getUserWebsiteDir(req[r].user, req[r].website.subdomain)

\* extractScript behind a lock on the website directory: fs.mkdir waits while
\* another request is between its mkdir and the end of its unzip
ApplyMkdirMut(r) ==
  /\ req[r].pc = "mkdir" /\ req[r].kind = "apply"
  /\ \A q \in Requests \ {r} :
       ~(/\ req[q].pc \in {"readdir", "rm", "unzip"}
         /\ req[q].kind = "apply"
         /\ WebsiteDirOf(q) = WebsiteDirOf(r))
  /\ fs' = mkdirRecursive(WebsiteDirOf(r))
  /\ req' = [req EXCEPT ![r] = [Did(r, "mkdir") EXCEPT !.pc = "readdir"]]
  /\ Silent
  /\ UNCHANGED <<websites, websiteLogs, scriptsDir, scriptTemplates, started, faults, nextId>>

\* extractScript: fs.mkdir(websiteDir, {recursive})
ApplyMkdir(r) ==
  /\ req[r].pc = "mkdir" /\ req[r].kind = "apply"
  /\ fs' = mkdirRecursive(WebsiteDirOf(r))
  /\ req' = [req EXCEPT ![r] = [Did(r, "mkdir") EXCEPT !.pc = "readdir"]]
  /\ Silent
  /\ UNCHANGED <<websites, websiteLogs, scriptsDir, scriptTemplates, started, faults, nextId>>

\* clearWebsiteDir: fs.readdir; a missing directory rejects, which is logged;
\* listed is the array readdir gave, items the part of it the loop has yet to remove
ApplyReaddir(r) ==
  /\ req[r].pc = "readdir" /\ req[r].kind = "apply"
  /\ LET items == IF WebsiteDirOf(r) \in DOMAIN fs THEN fs[WebsiteDirOf(r)] ELSE {}
     IN req' = [req EXCEPT ![r].listed = items,
                           ![r].items = items,
                           ![r].pc = IF items = {} THEN "unzip" ELSE "rm"]
  /\ Silent
  /\ UNCHANGED <<websites, websiteLogs, fs, scriptsDir, scriptTemplates, started, faults, nextId>>

\* fs.rm(item, {recursive, force}) inside a directory
rmItem(dir, item) ==
  IF dir \in DOMAIN fs THEN [fs EXCEPT ![dir] = @ \ {item}] ELSE fs

\* clearWebsiteDir: the loop removes the listed items, in the order readdir gave
ApplyRm(r, item) ==
  /\ req[r].pc = "rm" /\ req[r].kind = "apply"
  /\ item \in req[r].items
  /\ fs' = rmItem(WebsiteDirOf(r), item)
  /\ req' = [req EXCEPT ![r] = [Did(r, "rm") EXCEPT
                                  !.items = @ \ {item},
                                  !.pc = IF req[r].items = {item} THEN "unzip" ELSE "rm"]]
  /\ Silent
  /\ UNCHANGED <<websites, websiteLogs, scriptsDir, scriptTemplates, started, faults, nextId>>

\* clearWebsiteDir: one fs.rm rejects; the catch logs it and the loop is left
ApplyRmFails(r) ==
  /\ req[r].pc = "rm" /\ req[r].kind = "apply"
  /\ faults < MaxFaults
  /\ faults' = faults + 1
  /\ req' = [req EXCEPT ![r].pc = "unzip"]
  /\ Silent
  /\ UNCHANGED <<websites, websiteLogs, fs, scriptsDir, scriptTemplates, started, nextId>>

\* execSync(cd websiteDir && unzip -o scriptPath): entries are written over
\* what is there; cd, a missing archive or a corrupt archive make it throw
unzipInto(dir, scriptName) ==
  [fs EXCEPT ![dir] = @ \cup ArchiveFiles(Content(scriptName))]

ApplyUnzip(r) ==
  /\ req[r].pc = "unzip" /\ req[r].kind = "apply"
  /\ IF WebsiteDirOf(r) \in DOMAIN fs /\ scriptExists(req[r].scriptName)
        /\ ArchiveOk(Content(req[r].scriptName))
       THEN /\ fs' = unzipInto(WebsiteDirOf(r), req[r].scriptName)
            /\ req' = [req EXCEPT ![r] = [Did(r, "unzip") EXCEPT !.pc = "update"]]
            /\ Silent
       ELSE /\ Respond(r, 500, MsgScriptFailed, [req[r] EXCEPT !.cause = "unzip"])
            /\ UNCHANGED fs
  /\ UNCHANGED <<websites, websiteLogs, scriptsDir, scriptTemplates, started, faults, nextId>>

\* storage.updateWebsite(req.params.id, {currentScript: scriptName})
ApplyUpdate(r) ==
  /\ req[r].pc = "update" /\ req[r].kind = "apply"
  /\ websites' = updateWebsiteRows(req[r].id, [currentScript |-> req[r].scriptName])
  /\ req' = [req EXCEPT ![r] = [Did(r, "update") EXCEPT !.pc = "log"]]
  /\ Silent
  /\ UNCHANGED <<websiteLogs, fs, scriptsDir, scriptTemplates, started, faults, nextId>>

\* storage.createWebsiteLog of the script change, and the answer
ApplyLog(r) ==
  /\ req[r].pc = "log" /\ req[r].kind = "apply"
  /\ IF LogForeignKey(req[r].website.id)
       THEN /\ websiteLogs' = Append(websiteLogs,
                 [websiteId |-> req[r].website.id, action |-> "script_changed",
                  details |-> [oldScript |-> req[r].website.currentScript,
                               newScript |-> req[r].scriptName]])
            /\ Respond(r, 200, MsgScriptChanged, Did(r, "log"))
       ELSE /\ Respond(r, 500, MsgScriptFailed, [req[r] EXCEPT !.cause = "fk"])
            /\ UNCHANGED websiteLogs
  /\ UNCHANGED <<websites, fs, scriptsDir, scriptTemplates, started, faults, nextId>>

(* ------------------------ POST /api/scripts/upload -------------------- *)
MsgNoFile == "No file uploaded"
MsgNameRequired == "Name and display name are required"
MsgScriptExists == "Script with this name already exists"
MsgUploadFailed == "Failed to upload script"
MsgUploaded == "template"

getScriptTemplate(id) == {t \in scriptTemplates : t.id = id}

getScriptTemplateByName(name) == {t \in scriptTemplates : t.name = name}

\* the unique constraint on script_templates.name
NameUnique(row) == \A t \in scriptTemplates : t.name # row.name

\* the columns a template row carries, with the column default of isActive
\* (description, version and the timestamps take no part)
insertTemplateRow(id, template) ==
  [id |-> id,
   name |-> template.name,
   displayName |-> template.displayName,
   fileName |-> template.fileName,
   isActive |-> TRUE]

\* what a handler holds before it has read or made a template row
NoTemplate == [id |-> 0]

\* `${name}.zip`
ZipName(name) == name \o ".zip"

\* the req.file check, the name and displayName check, getScriptTemplateByName
\* and the check that the name is free
UploadCheck(r, form) ==
  /\ Idle(r)
  /\ started' = started + 1
  /\ LET this == [kind |-> "upload", pc |-> "write", file |-> form.file,
                  name |-> form.name, displayName |-> form.displayName,
                  fileName |-> ZipName(form.name), template |-> NoTemplate,
                  cause |-> "", effects |-> << >>]
     IN IF form.file = NoFile
          THEN Respond(r, 400, MsgNoFile, [this EXCEPT !.cause = "file"])
          ELSE IF form.name = "" \/ form.displayName = ""
            THEN Respond(r, 400, MsgNameRequired, [this EXCEPT !.cause = "name"])
            ELSE IF getScriptTemplateByName(form.name) # {}
              THEN Respond(r, 400, MsgScriptExists, [this EXCEPT !.cause = "exists"])
              ELSE /\ req' = [req EXCEPT ![r] = this]
                   /\ Silent
  /\ UNCHANGED <<websites, websiteLogs, scriptTemplates, fs, scriptsDir, faults, nextId>>

\* fs.writeFile(scriptPath, buffer): makes the file or replaces its bytes
writeFile(fileName, buffer) ==
  [n \in DOMAIN scriptsDir \cup {fileName} |->
     IF n = fileName THEN buffer ELSE scriptsDir[n]]

\* fileManager.uploadScript
UploadWrite(r) ==
  /\ req[r].pc = "write" /\ req[r].kind = "upload"
  /\ scriptsDir' = writeFile(req[r].fileName, req[r].file)
  /\ req' = [req EXCEPT ![r] = [Did(r, "write") EXCEPT !.pc = "insert"]]
  /\ Silent
  /\ UNCHANGED <<websites, websiteLogs, scriptTemplates, fs, started, faults, nextId>>

\* fs.writeFile rejects: uploadScript rethrows and the handler's catch answers 500
UploadWriteFails(r) ==
  /\ req[r].pc = "write" /\ req[r].kind = "upload"
  /\ faults < MaxFaults
  /\ faults' = faults + 1
  /\ Respond(r, 500, MsgUploadFailed, [req[r] EXCEPT !.cause = "write"])
  /\ UNCHANGED <<websites, websiteLogs, scriptTemplates, fs, scriptsDir, started, nextId>>

\* storage.createScriptTemplate: the insert, refused by the unique constraint,
\* and the 201 answer
UploadInsert(r) ==
  /\ req[r].pc = "insert" /\ req[r].kind = "upload"
  /\ LET row == insertTemplateRow(nextId, req[r])
     IN IF NameUnique(row)
          THEN /\ scriptTemplates' = scriptTemplates \cup {row}
               /\ nextId' = nextId + 1
               /\ Respond(r, 201, MsgUploaded, [Did(r, "insert") EXCEPT !.template = row])
          ELSE /\ Respond(r, 500, MsgUploadFailed, [req[r] EXCEPT !.cause = "unique"])
               /\ UNCHANGED <<scriptTemplates, nextId>>
  /\ UNCHANGED <<websites, websiteLogs, fs, scriptsDir, started, faults>>

(* ------------------------ DELETE /api/scripts/:id --------------------- *)
MsgTemplateNotFound == "Script template not found"
MsgTemplateDeleted == "Script template deleted successfully"

\* getScriptTemplate and the existence check
RemoveGet(r, id) ==
  /\ Idle(r)
  /\ started' = started + 1
  /\ LET this == [kind |-> "remove", pc |-> "unlink", id |-> id,
                  template |-> NoTemplate, cause |-> "", effects |-> << >>]
     IN IF getScriptTemplate(id) = {}
          THEN Respond(r, 404, MsgTemplateNotFound, [this EXCEPT !.cause = "missing"])
          ELSE LET template == CHOOSE t \in getScriptTemplate(id) : TRUE
               IN /\ req' = [req EXCEPT ![r] = [this EXCEPT !.template = template]]
                  /\ Silent
  /\ UNCHANGED <<websites, websiteLogs, scriptTemplates, fs, scriptsDir, faults, nextId>>

\* fs.unlink(scriptPath)
unlink(fileName) == [n \in DOMAIN scriptsDir \ {fileName} |-> scriptsDir[n]]

\* fileManager.deleteScript: the file is removed; when there is none, unlink
\* rejects with ENOENT, which deleteScript logs and drops
RemoveUnlink(r) ==
  /\ req[r].pc = "unlink" /\ req[r].kind = "remove"
  /\ scriptsDir' = unlink(req[r].template.fileName)
  /\ req' = [req EXCEPT ![r] = [Did(r, "unlink") EXCEPT !.pc = "row"]]
  /\ Silent
  /\ UNCHANGED <<websites, websiteLogs, scriptTemplates, fs, started, faults, nextId>>

\* fs.unlink of a file that is there rejects (EACCES, EPERM, EBUSY):
\* deleteScript logs the error and returns
RemoveUnlinkFails(r) ==
  /\ req[r].pc = "unlink" /\ req[r].kind = "remove"
  /\ req[r].template.fileName \in DOMAIN scriptsDir
  /\ faults < MaxFaults
  /\ faults' = faults + 1
  /\ req' = [req EXCEPT ![r].pc = "row"]
  /\ Silent
  /\ UNCHANGED <<websites, websiteLogs, scriptTemplates, fs, scriptsDir, started, nextId>>

\* DELETE FROM script_templates WHERE id = id
deleteTemplateRows(id) == {t \in scriptTemplates : t.id # id}

\* storage.deleteScriptTemplate and the answer
RemoveRow(r) ==
  /\ req[r].pc = "row" /\ req[r].kind = "remove"
  /\ scriptTemplates' = deleteTemplateRows(req[r].id)
  /\ Respond(r, 200, MsgTemplateDeleted, Did(r, "row"))
  /\ UNCHANGED <<websites, websiteLogs, fs, scriptsDir, started, faults, nextId>>

(* ---------------------------- GET /api/scripts ------------------------ *)
MsgCatalog == "scripts"

\* SELECT * FROM script_templates WHERE is_active = true (the ORDER BY takes
\* no part: the answer is read as a set)
getScriptTemplates == {t \in scriptTemplates : t.isActive}

\* file.endsWith('.zip'), over the file names that occur
Stems == {"a", "b", "bad", "none", "x", ""}

endsWithZip(file) == \E stem \in Stems : file = ZipName(stem)

\* fileManager.getAvailableScripts: the names in the scripts directory that end
\* in .zip
getAvailableScripts == {file \in DOMAIN scriptsDir : endsWithZip(file)}

\* templates.map(template => ({...template, fileExists: ...includes(fileName)}))
scriptsWithFiles(templates, availableScripts) ==
  {[fileExists |-> template.fileName \in availableScripts] @@ template :
     template \in templates}

\* the handler's first await: storage.getScriptTemplates
CatalogTemplates(r) ==
  /\ Idle(r)
  /\ started' = started + 1
  /\ req' = [req EXCEPT ![r] =
               [kind |-> "catalog", pc |-> "readdir", templates |-> getScriptTemplates,
                view |-> {}, cause |-> "", effects |-> << >>]]
  /\ Silent
  /\ UNCHANGED <<websites, websiteLogs, scriptTemplates, fs, scriptsDir, faults, nextId>>

\* the second await, fs.readdir of the scripts directory, the merge and the
\* 200 answer
CatalogReaddir(r) ==
  /\ req[r].pc = "readdir" /\ req[r].kind = "catalog"
  /\ Respond(r, 200, MsgCatalog,
             [Did(r, "readdir") EXCEPT
                !.view = scriptsWithFiles(req[r].templates, getAvailableScripts)])
  /\ UNCHANGED <<websites, websiteLogs, scriptTemplates, fs, scriptsDir, started,
                 faults, nextId>>

\* fs.readdir rejects (EMFILE, EACCES): getAvailableScripts logs the error and
\* returns [], and the handler answers 200 all the same
CatalogReaddirFails(r) ==
  /\ req[r].pc = "readdir" /\ req[r].kind = "catalog"
  /\ faults < MaxFaults
  /\ faults' = faults + 1
  /\ Respond(r, 200, MsgCatalog,
             [req[r] EXCEPT !.view = scriptsWithFiles(req[r].templates, {}),
                            !.cause = "readdir"])
  /\ UNCHANGED <<websites, websiteLogs, scriptTemplates, fs, scriptsDir, started, nextId>>

(* --------------------------- specifications --------------------------- *)
\* the server after start-up: empty tables, no website directory, and the
\* archives that lie in the scripts directory
Init ==
  /\ websites = {}
  /\ websiteLogs = << >>
  /\ scriptTemplates = {}
  /\ fs = << >>
  /\ scriptsDir = ShippedScripts
  /\ req = [r \in Requests |-> IdleReq]
  /\ response = NoResponse
  /\ started = 0
  /\ faults = 0
  /\ nextId = 1

\* the request bodies and parameters the clients send; a body may carry keys
\* the client is not meant to set (another user's id, a script name)
Other(u) == CHOOSE v \in Users : v # u

CreateBodies(u) ==
  {[name |-> NameSite, subdomain |-> SubA],
   [name |-> NameSite, subdomain |-> SubB],
   [name |-> NameSite, subdomain |-> SubA, currentScript |-> ScriptA, userId |-> Other(u)],
   [name |-> NameSite, subdomain |-> SubUpper],
   [name |-> Empty, subdomain |-> SubA]}

PatchBodies(u) ==
  {[currentScript |-> ScriptB],
   [name |-> NameNew, userId |-> Other(u), subdomain |-> SubB]}

\* the users who send requests; user names are interchangeable, so the first
\* request of a behaviour is u1's
Clients == IF started = 0 THEN {"u1"} ELSE Users

ScriptNames == {ScriptA, ScriptB, ScriptBad, ScriptMissing, ""}

\* the ids a client can name: those of the rows, and one that names no row
KnownIds == {w.id : w \in websites} \cup {0}

\* one step of the request in slot r
Step(r) ==
  \/ \E u \in Clients : \E b \in CreateBodies(u) : CreateQuota(r, u, b)
  \/ CreateSubdomain(r)
  \/ CreateMkdir(r)
  \/ CreateMkdirFails(r)
  \/ CreateInsert(r)
  \/ CreateLog(r)
  \/ \E u \in Clients, id \in KnownIds : \E b \in PatchBodies(u) : PatchGet(r, u, id, b)
  \/ PatchUpdate(r)
  \/ PatchLog(r)
  \/ \E u \in Clients, id \in KnownIds : DeleteGet(r, u, id)
  \/ DeleteRmdir(r)
  \/ DeleteRmdirFails(r)
  \/ DeleteRow(r)
  \/ \E u \in Clients, id \in KnownIds, s \in ScriptNames : ApplyGet(r, u, id, s)
  \/ ApplyExists(r)
  \/ ApplyMkdir(r)
  \/ ApplyReaddir(r)
  \/ \E item \in ArchiveFiles(ScriptA) \cup ArchiveFiles(ScriptB) : ApplyRm(r, item)
  \/ ApplyRmFails(r)
  \/ ApplyUnzip(r)
  \/ ApplyUpdate(r)
  \/ ApplyLog(r)

\* requests overlap: any request in flight takes the next step
Next == \E r \in Requests : Step(r)

Spec == Init /\ [][Next]_vars

\* requests one after the other: a request is answered before the next arrives
NextSeq == Step(1)

SpecSeq == Init /\ [][NextSeq]_vars

\* the server right after u1's createWebsite of subdomain "a" was answered 201:
\* the row, its empty directory and its "created" entry
ProvisionedWebsite ==
  insertWebsiteRow(1, validatedData([name |-> NameSite, subdomain |-> SubA], "u1"))

ProvisionedAnswer ==
  [status |-> 201, message |-> MsgCreated,
   req |-> [kind |-> "create", pc |-> "log", user |-> "u1",
            body |-> [name |-> NameSite, subdomain |-> SubA],
            data |-> validatedData([name |-> NameSite, subdomain |-> SubA], "u1"),
            issues |-> {}, website |-> ProvisionedWebsite, prior |-> {},
            cause |-> "", effects |-> <<"mkdir", "insert", "log">>]]

Provisioned ==
  /\ websites = {ProvisionedWebsite}
  /\ websiteLogs = <<[websiteId |-> 1, action |-> "created",
                      details |-> [name |-> NameSite, subdomain |-> SubA]]>>
  /\ scriptTemplates = {}
  /\ fs = (getUserWebsiteDir("u1", SubA) :> {})
  /\ scriptsDir = ShippedScripts
  /\ req = [r \in Requests |-> IdleReq]
  /\ response = ProvisionedAnswer
  /\ faults = 0
  /\ nextId = 2

\* requests one after the other on the provisioned server
InitProvisioned == Provisioned /\ started = 0

SpecProvisioned == InitProvisioned /\ [][NextSeq]_vars

\* overlapping requests on the provisioned server
SpecProvisionedOverlap == InitProvisioned /\ [][Next]_vars

\* the multipart forms clients upload: two buffers under one name, the name of
\* an archive that lies in the scripts directory, and forms that lack a part
UploadForms ==
  {[name |-> "x", displayName |-> "X", file |-> BufferX],
   [name |-> "x", displayName |-> "X", file |-> BufferY],
   [name |-> "a", displayName |-> "A", file |-> BufferX],
   [name |-> "", displayName |-> "X", file |-> BufferX],
   [name |-> "x", displayName |-> "", file |-> BufferX],
   [name |-> "x", displayName |-> "X", file |-> NoFile]}

\* the template ids a client can name: those of the rows, and one of no row
KnownTemplateIds == {t.id : t \in scriptTemplates} \cup {0}

\* one step of a script template request in slot r
StepScripts(r) ==
  \/ \E form \in UploadForms : UploadCheck(r, form)
  \/ UploadWrite(r)
  \/ UploadWriteFails(r)
  \/ UploadInsert(r)
  \/ \E id \in KnownTemplateIds : RemoveGet(r, id)
  \/ RemoveUnlink(r)
  \/ RemoveUnlinkFails(r)
  \/ RemoveRow(r)
  \/ CatalogTemplates(r)
  \/ CatalogReaddir(r)
  \/ CatalogReaddirFails(r)

\* the script template handlers, requests overlapping
NextScripts == \E r \in Requests : StepScripts(r)

SpecScripts == Init /\ [][NextScripts]_vars

\* POST /api/websites alone, over every subdomain string of up to MaxLen
\* characters of an alphabet that holds the ends of the ranges a-z and 0-9, the
\* hyphen, their neighbours in the code table, upper case, blank and line feed
Alphabet == {10, 32, 33, 44, 45, 46, 47, 48, 57, 58, 65, 90, 95, 96, 97, 122, 123}

RECURSIVE StringsUpTo(_)
StringsUpTo(n) ==
  IF n = 0 THEN {<< >>}
  ELSE LET shorter == StringsUpTo(n - 1)
       IN shorter \cup {Append(t, c) : t \in shorter, c \in Alphabet}

ValidateBodies ==
  {[name |-> n, subdomain |-> t] :
     n \in {NameSite, Empty},
     t \in StringsUpTo(MaxLen) \cup {SubMySite1, SubMySiteBang}}
  \cup {[name |-> NameSite]}

\* the first request of the server, sent by a user who owns no website
NextValidate ==
  \/ \E b \in ValidateBodies : started = 0 /\ CreateQuota(1, "u1", b)
  \/ CreateSubdomain(1)
  \/ CreateMkdir(1)
  \/ CreateMkdirFails(1)
  \/ CreateInsert(1)
  \/ CreateLog(1)

SpecValidate == Init /\ [][NextValidate]_vars

(* ------------------------------- claims ------------------------------- *)
Answered == response.status # 0

\* the step in which the request that was just sent is read: it either stays in
\* flight in a slot or is answered at once
Arrives == started' = started + 1

Arrived ==
  IF response'.status # 0 THEN response'.req
  ELSE LET r == CHOOSE q \in Requests : req[q].pc = "idle" /\ req'[q].pc # "idle"
       IN req'[r]

StoresUnchanged == UNCHANGED <<websites, websiteLogs, fs>>

\* C1: in every reachable state each user owns at most one website row, also
\* when createWebsite requests of one user overlap
C1_OneWebsitePerUser ==
  \A u \in Users : Cardinality(getUserWebsites(u)) <= 1

\* C2: a createWebsite request of a user who owns a website is answered 400 with
\* the quota message, whatever its body, and creates no directory, row or
\* audit entry
C2_QuotaRejectsWithoutEffect ==
  [][(Arrives /\ Arrived.kind = "create" /\ getUserWebsites(Arrived.user) # {})
       => /\ response'.status = 400
          /\ response'.message = MsgQuota
          /\ response'.req.effects = << >>
          /\ \A r \in Requests : req'[r] = req[r]
          /\ StoresUnchanged]_vars

\* a user who owns a website is refused although the body is invalid as well
C2_Witness ==
  /\ response.status = 400
  /\ response.message = MsgQuota
  /\ response.req.body.subdomain = SubUpper
  /\ getUserWebsites(response.req.user) # {}

\* C3: no two website rows have the same subdomain, whatever the interleaving
\* of createWebsite requests
C3_SubdomainsDistinct ==
  \A v \in websites, w \in websites : v.subdomain = w.subdomain => v = w

\* two requests passed the taken check with one subdomain, and the second insert
\* was refused
C3_Witness ==
  /\ Answered
  /\ response.req.kind = "create"
  /\ response.req.effects = <<"mkdir">>
  /\ \E w \in websites : w.subdomain = response.req.data.subdomain

\* C4: a createWebsite request that loses a subdomain to another user's website
\* is answered 400 "Subdomain already taken", also when the two requests overlap
C4_LoserGetsConflict ==
  (/\ Answered
   /\ response.req.kind = "create"
   /\ response.status # 201
   /\ response.req.cause \notin {"quota", "zod", "mkdir", "fk"}
   /\ \E w \in websites : /\ w.subdomain = response.req.data.subdomain
                          /\ w.userId # response.req.user)
    => (response.status = 400 /\ response.message = MsgTaken)

\* the characters the pattern is meant to admit, one by one
LowercaseLetters ==
  {97, 98, 99, 100, 101, 102, 103, 104, 105, 106, 107, 108, 109, 110, 111, 112, 113,
   114, 115, 116, 117, 118, 119, 120, 121, 122}

Digits == {48, 49, 50, 51, 52, 53, 54, 55, 56, 57}

Hyphen == 45

WellFormedSubdomain(body) ==
  /\ "subdomain" \in DOMAIN body
  /\ body.subdomain # << >>
  /\ \A i \in 1..Len(body.subdomain) :
       body.subdomain[i] \in LowercaseLetters \cup Digits \cup {Hyphen}

WellFormedName(body) == "name" \in DOMAIN body /\ body.name # << >>

\* C5: for a user without a website, the subdomain is accepted exactly when it
\* is a non-empty string of lowercase letters, digits and hyphens; a rejected
\* one is answered 400 and nothing is created
C5_SubdomainPattern ==
  [][(Arrives /\ Arrived.kind = "create" /\ getUserWebsites(Arrived.user) = {})
       => /\ WellFormedSubdomain(Arrived.body) <=> "subdomain" \notin Arrived.issues
          /\ (WellFormedSubdomain(Arrived.body) /\ WellFormedName(Arrived.body))
               <=> response'.status = 0
          /\ ~WellFormedSubdomain(Arrived.body)
               => /\ response'.status = 400
                  /\ response'.message = MsgValidation
                  /\ response'.req.effects = << >>
                  /\ StoresUnchanged]_vars

\* "My Site!" is rejected
C5_Witness ==
  /\ response.status = 400
  /\ response.message = MsgValidation
  /\ "subdomain" \in DOMAIN response.req.body
  /\ response.req.body.subdomain = SubMySiteBang
  /\ response.req.issues = {"subdomain"}

\* the side effects of createWebsite in the order they are meant to occur
CreateOrder == <<"mkdir", "insert", "log">>

IsPrefix(s, t) == Len(s) <= Len(t) /\ \A i \in 1..Len(s) : s[i] = t[i]

NewRows == {w \in websites' : \A v \in websites : v.id # w.id}

\* C6: createWebsite makes the directory, then inserts the row, then appends the
\* "created" entry, and answers 201 after the three; when mkdir fails there is
\* no row and no entry
C6_CreateOrder ==
  /\ [](\A r \in Requests : req[r].pc # "idle" /\ req[r].kind = "create"
          => IsPrefix(req[r].effects, CreateOrder))
  /\ []((Answered /\ response.req.kind = "create")
          => /\ IsPrefix(response.req.effects, CreateOrder)
             /\ response.status = 201 <=> response.req.effects = CreateOrder
             /\ response.req.cause = "mkdir" => response.req.effects = << >>)
  /\ [][/\ NewRows # {}
          => \E r \in Requests : /\ req[r].pc = "insert"
                                 /\ req[r].effects = <<"mkdir">>
                                 /\ req'[r].effects = <<"mkdir", "insert">>
        /\ (Len(websiteLogs') > Len(websiteLogs)
              /\ websiteLogs'[Len(websiteLogs')].action = "created")
          => /\ response'.status = 201
             /\ response'.req.effects = CreateOrder
        /\ (response'.status # 0 /\ response'.req.kind = "create"
              /\ response'.req.cause = "mkdir")
          => UNCHANGED <<websites, websiteLogs>>]_vars

\* mkdir failed and the request was answered 500
C6_Witness ==
  /\ response.status = 500
  /\ response.req.kind = "create"
  /\ response.req.cause = "mkdir"
  /\ \A w \in websites : w.subdomain # response.req.data.subdomain

\* C7: right after a successful createWebsite the new website has no script,
\* whatever the body carried
C7_CreatedUninitialized ==
  (Answered /\ response.req.kind = "create" /\ response.status = 201)
    => response.req.website.currentScript = Null

\* C8: currentScript of a website changes only in the update of a change-script
\* request on that website, which writes the requested script name
C8_OnlyApplyChangesScript ==
  [][\A v \in websites, w \in websites' :
       (v.id = w.id /\ v.currentScript # w.currentScript)
         => \E r \in Requests : /\ req[r].pc = "update"
                                /\ req[r].kind = "apply"
                                /\ req[r].id = v.id
                                /\ w.currentScript = req[r].scriptName]_vars

WebsiteDirOfResponse ==
  getUserWebsiteDir(response.req.user, response.req.website.subdomain)

C10_SubtreeIsArchive ==
  (Answered /\ response.req.kind = "apply" /\ response.status = 200)
    => /\ WebsiteDirOfResponse \in DOMAIN fs
       /\ fs[WebsiteDirOfResponse] = ArchiveFiles(response.req.scriptName)
       /\ \A w \in getWebsite(response.req.id) :
            w.currentScript = response.req.scriptName

\* C11: two successful change-script requests of one script, one right after
\* the other, leave the directory and currentScript as the first one left them
C11_ApplyTwiceIsApplyOnce ==
  (Answered /\ response.req.kind = "apply" /\ response.status = 200 /\ response.req.prior)
    => /\ WebsiteDirOfResponse \in DOMAIN fs
       /\ fs[WebsiteDirOfResponse] = response.req.listed
       /\ \A w \in getWebsite(response.req.id) :
            w.currentScript = response.req.website.currentScript

\* C12: when unzip fails, after the clear step, the change-script request is
\* answered 500, the directory is empty, the row keeps the script it had and no
\* "script_changed" entry is appended
C12_FailedUnzipLeavesEmpty ==
  [][\A r \in Requests :
       (req[r].pc = "unzip" /\ req[r].kind = "apply" /\ req'[r] = IdleReq)
         => /\ response'.status = 500
            /\ response'.message = MsgScriptFailed
            /\ WebsiteDirOf(r) \in DOMAIN fs'
            /\ fs'[WebsiteDirOf(r)] = {}
            /\ websites' = websites
            /\ \A w \in getWebsite(req[r].id) :
                 w.currentScript = req[r].website.currentScript
            /\ websiteLogs' = websiteLogs]_vars

OnWebsite == {"patch", "delete", "apply"}

\* what a request on a website id that fails a check is answered, and leaves
Refused(status, message) ==
  /\ response'.status = status
  /\ response'.message = message
  /\ response'.req.effects = << >>
  /\ \A r \in Requests : req'[r] = req[r]
  /\ StoresUnchanged

ChecksOf(request) ==
  /\ getWebsite(request.id) = {} => Refused(404, MsgNotFound)
  /\ (\E w \in getWebsite(request.id) : w.userId # request.user)
       => Refused(403, MsgDenied)

\* a request in flight has passed both checks: it holds the row it read, which
\* is the caller's
PassedChecks ==
  \A r \in Requests :
    (req[r].pc # "idle" /\ req[r].kind \in OnWebsite)
      => /\ req[r].website.id = req[r].id
         /\ req[r].website.userId = req[r].user

\* C13 as stated: PATCH, DELETE and change-script answer 404 for a missing
\* website and 403 for a caller who is not the owner, and then nothing is
\* created, changed or removed
C13_ChecksPrecedeMutation ==
  /\ []PassedChecks
  /\ [][(Arrives /\ Arrived.kind \in OnWebsite) => ChecksOf(Arrived)]_vars

\* C13, amended: as stated for PATCH, DELETE and a change-script that carries a
\* script name; a change-script without one is answered 400 before the website
\* is read, and nothing is created, changed or removed either
C13_ChecksPrecedeMutationNamed ==
  /\ []PassedChecks
  /\ [][(Arrives /\ Arrived.kind \in OnWebsite)
          => IF Arrived.kind = "apply" /\ Arrived.scriptName = ""
               THEN Refused(400, MsgScriptRequired)
               ELSE ChecksOf(Arrived)]_vars

\* u2 asked to delete u1's website and was refused; the row and its directory
\* are there
C13_Witness ==
  /\ response.status = 403
  /\ response.message = MsgDenied
  /\ response.req.kind = "delete"
  /\ \E w \in getWebsite(response.req.id) :
       /\ w.userId # response.req.user
       /\ getUserWebsiteDir(w.userId, w.subdomain) \in DOMAIN fs

\* C14: when a DELETE by the owner is answered 200, the row is gone (a GET of
\* the id finds no row and answers 404) and the directory of the website is
\* gone, also when fs.rm failed and when a change-script of the website overlaps
C14_DeletedIsGone ==
  (Answered /\ response.req.kind = "delete" /\ response.status = 200)
    => /\ getWebsite(response.req.id) = {}
       /\ WebsiteDirOfResponse \notin DOMAIN fs

\* the requests that change a website, and the entry each one appends
Mutating == {"create", "patch", "apply"}

EntryAction(kind) ==
  CASE kind = "create" -> "created"
    [] kind = "patch" -> "updated"
    [] kind = "apply" -> "script_changed"

SucceededOn(id) ==
  /\ response'.status \in {200, 201}
  /\ response'.req.kind \in Mutating
  /\ response'.req.website.id = id

\* C15: the logs of an existing website, as GET /api/websites/:id/logs reads
\* them, are one entry per successful create, PATCH and change-script of it,
\* newest first: a new row has no entries, each success puts one entry of its
\* kind in front of the others, and no other step changes them (a step that
\* leaves the table alone is not a success)
C15_LogCountsSuccesses ==
  [][/\ \A w \in NewRows : getWebsiteLogs(w.id) = << >>
     /\ IF websiteLogs' = websiteLogs
          THEN \A w \in websites' : ~SucceededOn(w.id)
          ELSE \A w \in websites' :
                 IF SucceededOn(w.id)
                   THEN /\ getWebsiteLogs(w.id)' # << >>
                        /\ Head(getWebsiteLogs(w.id)').action
                             = EntryAction(response'.req.kind)
                        /\ Tail(getWebsiteLogs(w.id)') = getWebsiteLogs(w.id)
                   ELSE getWebsiteLogs(w.id)' = getWebsiteLogs(w.id)]_vars

\* a website after its create, a PATCH and a change-script: three entries
C15_Witness ==
  \E w \in websites :
    /\ Len(getWebsiteLogs(w.id)) = 3
    /\ getWebsiteLogs(w.id)[1].action = "script_changed"
    /\ getWebsiteLogs(w.id)[2].action = "updated"
    /\ getWebsiteLogs(w.id)[3].action = "created"
    /\ response.status = 200

\* C16: no step changes the userId or the subdomain of a row; a PATCH whose
\* body carries userId and subdomain leaves both as they were
C16_OwnerAndSubdomainFixed ==
  [][\A v \in websites, w \in websites' :
       v.id = w.id => (w.userId = v.userId /\ w.subdomain = v.subdomain)]_vars

\* a PATCH with another user's id and another subdomain in its body was
\* answered 200 and changed the name only
C16_Witness ==
  /\ response.status = 200
  /\ response.req.kind = "patch"
  /\ "userId" \in DOMAIN response.req.body
  /\ "subdomain" \in DOMAIN response.req.body
  /\ \E w \in getWebsite(response.req.id) :
       /\ w.name = response.req.body.name
       /\ w.userId = response.req.user
       /\ w.userId # response.req.body.userId
       /\ w.subdomain # response.req.body.subdomain

\* the steps of a change-script request after its arrival
ApplySteps(r) ==
  \/ ApplyExists(r)
  \/ ApplyMkdir(r)
  \/ ApplyReaddir(r)
  \/ \E item \in req[r].items : ApplyRm(r, item)
  \/ ApplyUnzip(r)
  \/ ApplyUpdate(r)
  \/ ApplyLog(r)

ScriptChanges(id) ==
  {websiteLogs[i].details : i \in {j \in 1..Len(websiteLogs) :
       websiteLogs[j].websiteId = id /\ websiteLogs[j].action = "script_changed"}}

\* C17: change-script requests are not serialized: a request in flight never
\* waits for another one, whatever step that one is at, so the clear and
\* extract steps of two requests on one website interleave in every order
C17_ApplyNotSerialized ==
  \A r \in Requests :
    (req[r].pc # "idle" /\ req[r].kind = "apply") => ENABLED ApplySteps(r)

\* two overlapping change-script requests of one website, for a.zip and for
\* b.zip, were both answered 200 (each appended its entry, and both had read
\* the row before either wrote it), no filesystem call failed, and the
\* directory holds entries of both archives: not a.zip's set, not b.zip's
C17_Witness ==
  /\ faults = 0
  /\ Sequential
  /\ \E w \in websites :
       /\ ScriptChanges(w.id) = {[oldScript |-> Null, newScript |-> ScriptA],
                                 [oldScript |-> Null, newScript |-> ScriptB]}
       /\ getUserWebsiteDir(w.userId, w.subdomain) \in DOMAIN fs
       /\ LET content == fs[getUserWebsiteDir(w.userId, w.subdomain)]
          IN /\ content # ArchiveFiles(ScriptA)
             /\ content # ArchiveFiles(ScriptB)
             /\ content \cap (ArchiveFiles(ScriptA) \ ArchiveFiles(ScriptB)) # {}
             /\ content \cap (ArchiveFiles(ScriptB) \ ArchiveFiles(ScriptA)) # {}

\* C18: a createWebsite that follows the successful DELETE of the caller's only
\* website, with a valid subdomain no other row has (that of the deleted
\* website too), is answered 201 and makes the caller's row, unless mkdir fails
C18_RecreateAfterDelete ==
  (/\ Answered
   /\ response.req.kind = "create"
   /\ response.req.prior # {}
   /\ WellFormedSubdomain(response.req.body)
   /\ WellFormedName(response.req.body)
   /\ \A w \in websites :
        w.id # response.req.website.id
          => (w.userId # response.req.user /\ w.subdomain # response.req.body.subdomain)
   /\ response.req.cause # "mkdir")
    => /\ response.status = 201
       /\ response.req.website \in websites
       /\ response.req.website.userId = response.req.user
       /\ response.req.website.subdomain = response.req.body.subdomain

\* u1 created a website, deleted it and created one with the same subdomain
C18_Witness ==
  /\ response.status = 201
  /\ response.req.kind = "create"
  /\ response.req.prior = {response.req.body.subdomain}
  /\ getUserWebsites(response.req.user) = {response.req.website}

\* C19: when the DELETE of an existing template is answered, the answer is
\* 200, the record is gone and no file lies under its file name, whether or not
\* the file was there when unlink ran
C19_TemplateAndArchiveRemoved ==
  (Answered /\ response.req.kind = "remove" /\ response.req.cause # "missing")
    => /\ response.status = 200
       /\ getScriptTemplate(response.req.id) = {}
       /\ response.req.template.fileName \notin DOMAIN scriptsDir

\* the template rows a step inserts
NewTemplates == {t \in scriptTemplates' : \A u \in scriptTemplates : u.id # t.id}

\* C20: an upload under the name of a stored template is answered 400 and
\* changes no record and no file; no two records have one name; and the archive
\* under a record's file name is the buffer of the upload that made the record:
\* it is that buffer when the record is inserted, and no later step puts other
\* bytes under the file name while the record is there
C20_OneRecordOneArchive ==
  /\ [](\A t \in scriptTemplates, u \in scriptTemplates : t.name = u.name => t = u)
  /\ [][(Arrives /\ Arrived.kind = "upload"
            /\ getScriptTemplateByName(Arrived.name) # {})
          => /\ response'.status = 400
             /\ (Arrived.file # NoFile /\ Arrived.displayName # "")
                  => response'.message = MsgScriptExists
             /\ \A r \in Requests : req'[r] = req[r]
             /\ UNCHANGED <<scriptTemplates, scriptsDir>>]_vars
  /\ [][\A t \in NewTemplates :
          \E r \in Requests : /\ req[r].pc = "insert"
                               /\ req[r].kind = "upload"
                               /\ response'.req.template = t
                               /\ Content(t.fileName)' = req[r].file]_vars
  /\ [][\A t \in scriptTemplates \cap scriptTemplates' :
          t.fileName \in DOMAIN scriptsDir'
            => Content(t.fileName)' = Content(t.fileName)]_vars

\* the template record an item of the catalog view was made of
TemplateOf(item) == [k \in DOMAIN item \ {"fileExists"} |-> item[k]]

\* C21: the catalog view answers with the active template records it read, each
\* with fileExists true exactly when the scripts directory holds a file of the
\* record's fileName at the time of the answer
C21_CatalogFlagsMissingFiles ==
  (Answered /\ response.req.kind = "catalog")
    => /\ response.status = 200
       /\ {TemplateOf(item) : item \in response.req.view} = response.req.templates
       /\ \A item \in response.req.view :
            item.fileExists <=> item.fileName \in DOMAIN scriptsDir

\* the view lists a template whose archive is gone, flagged as missing
C21_FlaggedMissing ==
  /\ Answered
  /\ response.req.kind = "catalog"
  /\ response.req.cause = ""
  /\ \E item \in response.req.view :
       ~item.fileExists /\ item.fileName \notin DOMAIN scriptsDir

\* the entries of the websites that are still there after the step, in order
KeptLogs ==
  SelectSeq(websiteLogs, LAMBDA l : \E w \in websites' : w.id = l.websiteId)

\* C22: every audit entry references an existing website row, and a step that
\* changes the audit table keeps every entry of a website that still exists,
\* unchanged and in place, and can only append after them; entries leave the
\* table only with their website's row, all at once
C22_AuditAppendOnly ==
  /\ [](\A i \in 1..Len(websiteLogs) : LogForeignKey(websiteLogs[i].websiteId))
  /\ [][websiteLogs' # websiteLogs
         => /\ IsPrefix(KeptLogs, websiteLogs')
            /\ Len(websiteLogs') <= Len(KeptLogs) + 1
            /\ Len(KeptLogs) < Len(websiteLogs)
                 => \E r \in Requests : /\ req[r].pc = "delete"
                                        /\ req[r].kind = "delete"
                                        /\ websiteLogs' = KeptLogs]_vars

\* a website with its entries was deleted while another website's entry stayed
C22_Witness ==
  /\ response.status = 200
  /\ response.req.kind = "delete"
  /\ Len(websiteLogs) = 1
  /\ websiteLogs[1].websiteId # response.req.id
  /\ \E w \in websites : w.id = websiteLogs[1].websiteId

\* the step in which createWebsite's createUserWebsiteDir returns
CreatesSubtree(r) ==
  /\ req[r].pc = "mkdir"
  /\ req[r].kind = "create"
  /\ req'[r].pc = "insert"

\* C23: createUserWebsiteDir is idempotent: on a directory that is there it does
\* not fail and leaves the whole tree as it is, on one that is not there it adds
\* that directory alone, empty; it acts on the one path of (userId, subdomain),
\* and a second call right after would change nothing
C23_CreateSubtreeIdempotent ==
  /\ [](\A r \in Requests :
          (req[r].pc = "mkdir" /\ req[r].kind = "create") => ENABLED CreateMkdir(r))
  /\ [][\A r \in Requests :
          CreatesSubtree(r)
            => LET dir == getUserWebsiteDir(req[r].user, req[r].data.subdomain)
               IN /\ dir \in DOMAIN fs => fs' = fs
                  /\ dir \notin DOMAIN fs
                       => /\ DOMAIN fs' = DOMAIN fs \cup {dir}
                          /\ fs'[dir] = {}
                          /\ \A d \in DOMAIN fs : fs'[d] = fs[d]
                  /\ mkdirRecursive(dir)' = fs']_vars

\* createUserWebsiteDir returned on a directory that was there, with files in it
C23_Witness ==
  \E r \in Requests :
    /\ req[r].pc = "insert"
    /\ req[r].kind = "create"
    /\ req[r].effects = <<"mkdir">>
    /\ getUserWebsiteDir(req[r].user, req[r].data.subdomain) \in DOMAIN fs
    /\ fs[getUserWebsiteDir(req[r].user, req[r].data.subdomain)] # {}

\* the step in which extractScript's clearWebsiteDir returns
ClearsSubtree(r) ==
  /\ req[r].pc \in {"readdir", "rm"}
  /\ req[r].kind = "apply"
  /\ req'[r].pc = "unzip"

\* C24: when clearWebsiteDir returns, a subtree that was there is still there
\* and has no child left, and a subtree that was not there has not been made and
\* nothing else has changed; the caller goes on in both cases
C24_ClearRemovesChildren ==
  [][\A r \in Requests :
       ClearsSubtree(r)
         => IF WebsiteDirOf(r) \in DOMAIN fs
              THEN /\ WebsiteDirOf(r) \in DOMAIN fs'
                   /\ fs'[WebsiteDirOf(r)] = {}
              ELSE fs' = fs]_vars

\* the step in which change-script's scriptExists returns
ChecksTemplate(r) ==
  /\ req[r].pc = "exists"
  /\ req[r].kind = "apply"
  /\ req'[r] # req[r]

\* C25: change-script checks in this order: a body without scriptName is
\* answered 400, even for an id of no row; then an id of no row 404; then a
\* caller who is not the owner 403, even when the script named is not there; a
\* request that passes these goes on to the template check, which answers 404
\* for a missing archive; a rejected request changes no row, directory or entry
C25_CheckOrder ==
  [][/\ (Arrives /\ Arrived.kind = "apply")
        => /\ IF Arrived.scriptName = ""
                THEN Refused(400, MsgScriptRequired)
                ELSE IF getWebsite(Arrived.id) = {}
                  THEN Refused(404, MsgNotFound)
                  ELSE IF \E w \in getWebsite(Arrived.id) : w.userId # Arrived.user
                    THEN Refused(403, MsgDenied)
                    ELSE response'.status = 0 /\ Arrived.pc = "exists"
           /\ StoresUnchanged
     /\ \A r \in Requests :
          (ChecksTemplate(r) /\ ~scriptExists(req[r].scriptName))
            => /\ response'.status = 404
               /\ response'.message = MsgScriptNotFound
               /\ response'.req.effects = << >>
               /\ StoresUnchanged]_vars

\* a change-script without scriptName for an id of no row was answered 400
C25_Witness ==
  /\ response.status = 400
  /\ response.message = MsgScriptRequired
  /\ response.req.kind = "apply"
  /\ getWebsite(response.req.id) = {}

\* a caller who is not the owner named a script that is not there: 403
C25_WitnessForbidden ==
  /\ response.status = 403
  /\ response.req.kind = "apply"
  /\ response.req.scriptName = ScriptMissing

\* C26: a website row is made only by the insert of a createWebsite request,
\* and the row's userId is the id of the user who sent that request, whatever
\* userId the body carries
C26_CreatedRowIsCallers ==
  [][websites' # websites
       => \A w \in NewRows :
            \E r \in Requests : /\ req[r].pc = "insert"
                                 /\ req[r].kind = "create"
                                 /\ req'[r].pc = "log"
                                 /\ req'[r].website = w
                                 /\ w.userId = req[r].user]_vars

\* a body that names another user made a row of the caller
C26_Witness ==
  /\ response.status = 201
  /\ response.req.kind = "create"
  /\ "userId" \in DOMAIN response.req.body
  /\ response.req.body.userId # response.req.user
  /\ \E w \in websites : w = response.req.website /\ w.userId = response.req.user

\* C27: whenever no request is in flight, a directory of (userId, subdomain) is
\* on disk if and only if a website row has that userId and subdomain
C27_SubtreesMatchRows ==
  Sequential
    => DOMAIN fs = {getUserWebsiteDir(w.userId, w.subdomain) : w \in websites}

\* request r has extracted its archive and is about to write currentScript
AwaitsUpdate(r) == req[r].pc = "update" /\ req[r].kind = "apply"

\* C28: the updates of currentScript follow the order of the extractions: of
\* two change-script requests that have both extracted into one website's
\* directory and have yet to write currentScript, only the one that extracted
\* first can write next, so that the last extraction's name is written last.
\* (Whichever of the two extracted first, the formula fails where the other is
\* as free to write as it is.)
C28_UpdatesFollowExtractions ==
  \A r \in Requests, q \in Requests :
    (/\ r # q
     /\ AwaitsUpdate(r)
     /\ AwaitsUpdate(q)
     /\ req[r].id = req[q].id
     /\ req[r].scriptName # req[q].scriptName)
      => ~(ENABLED ApplyUpdate(r) /\ ENABLED ApplyUpdate(q))

\* both requests were answered 200, the directory holds b.zip's entries alone,
\* extracted after a.zip's were cleared, and currentScript is a.zip
C28_LastExtractionLost ==
  /\ Sequential
  /\ faults = 0
  /\ response.status = 200
  /\ response.req.kind = "apply"
  /\ response.req.scriptName = ScriptA
  /\ response.req.listed = {}
  /\ fs[WebsiteDirOfResponse] = ArchiveFiles(ScriptB)
  /\ \A w \in getWebsite(response.req.id) : w.currentScript = ScriptA
  /\ getWebsite(response.req.id) # {}

\* the script_changed entries of a website, oldest first
ScriptChangeLog(id) ==
  SelectSeq(websiteLogs,
            LAMBDA l : l.websiteId = id /\ l.action = "script_changed")

\* the step in which change-script's storage.updateWebsite takes effect
UpdatesScript(r) == AwaitsUpdate(r) /\ req'[r].pc = "log"

\* C29: the oldScript a change-script request is going to record is the value
\* currentScript holds right before the request's own update of the row, also
\* when requests overlap; and of a website's script_changed entries, oldest
\* first, each one's oldScript is the newScript of the one before it
C29_OldScriptIsPrevious ==
  /\ [][\A r \in Requests :
          UpdatesScript(r)
            => \A w \in getWebsite(req[r].id) :
                 w.currentScript = req[r].website.currentScript]_vars
  /\ [](\A w \in websites :
          \A k \in 2..Len(ScriptChangeLog(w.id)) :
            ScriptChangeLog(w.id)[k].details.oldScript
              = ScriptChangeLog(w.id)[k - 1].details.newScript)

\* website row w is another website than the one the request in slot r works
\* on: PATCH, DELETE and change-script work on the id of the path, createWebsite
\* on the row it inserted and on the (userId, subdomain) it was sent for
OtherWebsite(r, w) ==
  IF req[r].kind = "create"
    THEN /\ w.id # req[r].website.id
         /\ getUserWebsiteDir(w.userId, w.subdomain)
              # getUserWebsiteDir(req[r].user, req[r].data.subdomain)
    ELSE w.id # req[r].id

\* the directory of a website, if it is there, with what it holds
SubtreeOf(w) ==
  IF getUserWebsiteDir(w.userId, w.subdomain) \in DOMAIN fs
    THEN {fs[getUserWebsiteDir(w.userId, w.subdomain)]}
    ELSE {}

\* C30: a step of a createWebsite, PATCH, change-script or DELETE request on
\* one website leaves every other website as it is: its row, its directory
\* with the entries in it, and its audit entries
C30_WebsitesIsolated ==
  [][(websites' # websites \/ fs' # fs \/ websiteLogs' # websiteLogs)
       => \A r \in Requests :
            (req[r].pc # "idle" /\ req'[r] # req[r])
              => \A w \in websites :
                   OtherWebsite(r, w)
                     => /\ w \in websites'
                        /\ SubtreeOf(w)' = SubtreeOf(w)
                        /\ getWebsiteLogsMut(w.id)' = getWebsiteLogsMut(w.id)]_vars
====
